---- MODULE Spec2Model ----
(***************************************************************************)
(* Model of scripts/lint-all.js, the centralized linting orchestrator of   *)
(* the Pyrrha workspace.  One run of the process is one behaviour: the     *)
(* command line (argv) and the listing of the workspace directory are      *)
(* fixed by Init, the outcome of every external script is chosen when the  *)
(* script is run.                                                          *)
(***************************************************************************)
EXTENDS Integers, Sequences, FiniteSets, TLC

\* ------------------------------------------------------------------------
\* Bounds of the model
\* ------------------------------------------------------------------------
\* largest number of entries in the workspace directory
MaxItems == 3
\* largest number of names in the comma separated value of --repo=
MaxTargets == 2
\* largest number of distinct flags on the command line
MaxFlags == 2
\* largest exit status of the command run by execSync
MaxExitCode == 1
\* longest script list given to lintRepository in SpecLists
MaxScripts == 2

\* ------------------------------------------------------------------------
\* Static data of the program
\* ------------------------------------------------------------------------
WORKSPACE_ROOT == "<workspace>"
TOOLS_ROOT == "<workspace>/Pyrrha-Development-Tools"

REPO_CONFIGS ==
     ("Pyrrha-Dashboard"        :> [type |-> "multi-stack",  scripts |-> <<"lint-dashboard.sh">>])
  @@ ("Pyrrha-MQTT-Client"      :> [type |-> "nodejs",       scripts |-> <<"lint-nodejs.sh">>])
  @@ ("Pyrrha-Rules-Decision"   :> [type |-> "python",       scripts |-> <<"lint-python.sh">>])
  @@ ("Pyrrha-WebSocket-Server" :> [type |-> "nodejs",       scripts |-> <<"lint-nodejs.sh">>])
  @@ ("Pyrrha-Device-Simulator" :> [type |-> "nodejs",       scripts |-> <<"lint-nodejs.sh">>])
  @@ ("Pyrrha-Website"          :> [type |-> "react",        scripts |-> <<"lint-nodejs.sh">>])
  @@ ("Pyrrha-Firmware"         :> [type |-> "cpp-arduino",  scripts |-> <<"lint-cpp.sh">>])
  @@ ("Pyrrha-Mobile-App"       :> [type |-> "java-android", scripts |-> <<>>])
  @@ ("Pyrrha-Watch-App"        :> [type |-> "web-hybrid",   scripts |-> <<"lint-nodejs.sh">>])

\* Object.keys(REPO_CONFIGS)
RepoConfigKeys ==
  << "Pyrrha-Dashboard", "Pyrrha-MQTT-Client", "Pyrrha-Rules-Decision",
     "Pyrrha-WebSocket-Server", "Pyrrha-Device-Simulator", "Pyrrha-Website",
     "Pyrrha-Firmware", "Pyrrha-Mobile-App", "Pyrrha-Watch-App" >>

\* ------------------------------------------------------------------------
\* Inputs: the workspace directory and the command line
\* ------------------------------------------------------------------------
\* The entries a workspace listing is drawn from, in the order readdirSync
\* lists them: three configured repositories, the tools repository itself,
\* a Pyrrha-* directory without configuration, a plain directory and a file.
WorkspaceEntries ==
  << "Pyrrha-Dashboard", "Pyrrha-Development-Tools", "Pyrrha-Firmware",
     "Pyrrha-Mobile-App", "Pyrrha-Sensor", "README.md", "docs" >>

\* stat.isDirectory() of an entry
IsDirectory(item) == item # "README.md"

\* item.startsWith('Pyrrha-')
StartsWithPyrrha(item) ==
  item \in (DOMAIN REPO_CONFIGS) \cup {"Pyrrha-Development-Tools", "Pyrrha-Sensor"}

\* the entries of WorkspaceEntries at the positions S, in listing order
Listing(S) ==
  LET F[i \in 0..Len(WorkspaceEntries)] ==
        IF i = 0 THEN <<>>
        ELSE IF i \in S THEN Append(F[i-1], WorkspaceEntries[i]) ELSE F[i-1]
  IN F[Len(WorkspaceEntries)]

Workspaces ==
  { Listing(S) : S \in { T \in SUBSET (1..Len(WorkspaceEntries)) : Cardinality(T) <= MaxItems } }

\* flags of the command line; "--color" is a flag the program does not know
Flags == {"--fix", "--verbose", "-v", "--help", "-h", "--color"}

\* names written after --repo=: a configured repository with a script, the
\* configured repository without script, a name without configuration
RepoArgNames == {"Pyrrha-Dashboard", "Pyrrha-Mobile-App", "Pyrrha-Sensor"}

SeqsUpTo(S, n) == UNION { [1..k -> S] : k \in 0..n }

\* names.join(','): the text of a --repo= value, as names and commas
Join(names) ==
  [ i \in 1..(IF Len(names) = 0 THEN 0 ELSE 2 * Len(names) - 1) |->
      IF i % 2 = 1 THEN names[(i + 1) \div 2] ELSE "," ]

\* the texts written after --repo=, the empty text included
RepoArgTexts == { Join(names) : names \in SeqsUpTo(RepoArgNames, MaxTargets) }

\* argv without a --repo= argument
NoRepoArg == <<"<absent>">>

\* argv as the set of its flags and the text of its --repo= argument, if any
\* (the program reads flags with includes() and the first --repo= only)
Argvs ==
  { [flags |-> f, repo |-> r] :
      f \in { g \in SUBSET Flags : Cardinality(g) <= MaxFlags },
      r \in {NoRepoArg} \cup RepoArgTexts }

Outputs == {"", "3 problems found"}
ExitCodes == 0..MaxExitCode

NoExit == -1

VARIABLES
  argv,          \* process.argv
  workspace,     \* the listing of WORKSPACE_ROOT
  configs,       \* the table lintRepository reads repo.config from
  pc,            \* position of the process
  fixMode,       \* this.fixMode
  verbose,       \* this.verbose
  targetRepos,   \* this.targetRepos
  repos,         \* run: repos
  targetedRepos, \* run: targetedRepos
  repoIdx,       \* run: position of the for loop over targetedRepos
  scriptIdx,     \* lintRepository: position of the for loop over scripts
  scriptResults, \* lintRepository: results
  results,       \* run: results
  allResults,    \* history: every result pushed by lintRepository
  invocations,   \* history: every command given to execSync
  console,       \* the lines written by log, console.log and console.error
  exitCode,      \* exit code of the process, NoExit while it runs
  running,       \* the commands started by execSync that have not returned
  started,       \* history: every command started, in order
  written,       \* history: the files of the repositories the scripts wrote
  hookPc,        \* position of the pre-commit hook, "off" without hook
  hookRepo,      \* pre-commit hook: REPO_NAME
  hookExit,      \* exit code of the pre-commit hook, NoExit while it runs
  repoFiles,     \* the marker files in each directory of the workspace
  profiles,      \* history: what each classification of the workspace gave
  shScript,      \* lint script run by bash, "none" without one
  shFix,         \* lint script: FIX_MODE is set
  shFails,       \* lint script: the commands that exit non-zero in this run
  shIssues,      \* lint-cpp.sh: the number of files clang-format would change
  shPc,          \* lint script: position in the script, 0 when bash is not running
  shCwd,         \* lint script: working directory, below REPO_PATH
  shRan,         \* history: the commands run, with their working directory
  shExit,        \* exit status of the lint script, NoExit while it runs
  wScript,       \* watch or mobile script run by bash, "none" without one
  wArgs,         \* watch/mobile script: the command line
  wDirs,         \* watch/mobile script: the Pyrrha-* directories and their checks
  wIdx,          \* watch/mobile script: position of main in the directories
  wExitCode,     \* watch/mobile script: exit_code of main
  wProcessed,    \* watch/mobile script: repos_processed of main
  wRan,          \* history: the checks run, with their repository
  wExit,         \* exit status of the watch/mobile script, NoExit while it runs
  wPc            \* position of the watch/mobile script

vars == << argv, workspace, configs, pc, fixMode, verbose, targetRepos, repos,
           targetedRepos, repoIdx, scriptIdx, scriptResults, results,
           allResults, invocations, console, exitCode, running, started,
           written, hookPc, hookRepo, hookExit, repoFiles, profiles,
           shScript, shFix, shFails, shIssues, shPc, shCwd, shRan, shExit,
           wScript, wArgs, wDirs, wIdx, wExitCode, wProcessed, wRan, wExit,
           wPc >>

\* the variables of the classification of the workspace
classVars == << repoFiles, profiles >>

\* the variables of a lint script
shellVars == << shScript, shFix, shFails, shIssues, shPc, shCwd, shRan, shExit >>

\* the variables of the watch and mobile scripts
watchVars == << wScript, wArgs, wDirs, wIdx, wExitCode, wProcessed, wRan, wExit,
               wPc >>

\* the variables outside the process of lint-all.js and its hook
aux == << classVars, shellVars, watchVars >>

\* the variables of the pre-commit hook
hook == << hookPc, hookRepo, hookExit >>

\* the variables of the commands
procs == << running, started, written >>

Line(type, msg, name, num) == [type |-> type, msg |-> msg, name |-> name, num |-> num]

Range(s) == { s[i] : i \in 1..Len(s) }

\* ------------------------------------------------------------------------
\* Helpers of the program
\* ------------------------------------------------------------------------
\* text.split(','): the names between the commas ('' gives one empty name)
RECURSIVE SplitComma(_)
SplitComma(text) ==
  IF \A i \in 1..Len(text) : text[i] # ","
    THEN << (IF Len(text) = 0 THEN "" ELSE text[1]) >>
    ELSE LET k == CHOOSE i \in 1..Len(text) :
                    /\ text[i] = ","
                    /\ \A j \in 1..(i-1) : text[j] # ","
             head == SubSeq(text, 1, k - 1)
         IN << (IF Len(head) = 0 THEN "" ELSE head[1]) >>
              \o SplitComma(SubSeq(text, k + 1, Len(text)))

\* the value of this.targetRepos when no --repo= argument is given
Null == <<"<null>">>

parseTargetRepos(a) ==
  IF a.repo # NoRepoArg THEN SplitComma(a.repo) ELSE Null

\* path.join(root, item)
PathJoin(root, item) == << root, item >>

\* variant: a Pyrrha-* directory without configuration gets a generic one
RECURSIVE discoverRepos_GenericDefault(_, _, _)
discoverRepos_GenericDefault(items, table, n) ==
  IF n = 0 THEN [repos |-> <<>>, logs |-> <<>>]
  ELSE LET before == discoverRepos_GenericDefault(items, table, n - 1)
           item == items[n]
       IN IF IsDirectory(item) /\ StartsWithPyrrha(item)
               /\ item # "Pyrrha-Development-Tools"
            THEN [before EXCEPT !.repos =
                    Append(@, [name |-> item,
                               path |-> PathJoin(WORKSPACE_ROOT, item),
                               config |-> IF item \in DOMAIN table THEN table[item]
                                          ELSE [type |-> "nodejs",
                                                scripts |-> <<"lint-nodejs.sh">>]])]
            ELSE before

\* discoverRepos after the first n entries of the listing: the repos pushed
\* and the warnings logged
RECURSIVE discoverRepos(_, _, _)
discoverRepos(items, table, n) ==
  IF n = 0 THEN [repos |-> <<>>, logs |-> <<>>]
  ELSE LET before == discoverRepos(items, table, n - 1)
           item == items[n]
       IN IF IsDirectory(item) /\ StartsWithPyrrha(item)
               /\ item # "Pyrrha-Development-Tools"
            THEN IF item \in DOMAIN table
                   THEN [before EXCEPT !.repos =
                           Append(@, [name |-> item,
                                      path |-> PathJoin(WORKSPACE_ROOT, item),
                                      config |-> table[item]])]
                   ELSE [before EXCEPT !.logs =
                           Append(@, Line("warn", "Unknown repository", item, 0))]
            ELSE before

\* variant: only the first name of --repo= is honoured
SelectTargeted_FirstOnly(rs, targets) ==
  IF targets # Null
    THEN SelectSeq(rs, LAMBDA r : r.name = targets[1])
    ELSE rs

\* variant: every repository is linted when no requested name matches
SelectTargeted_Fallback(rs, targets) ==
  IF targets # Null /\ \E i \in 1..Len(rs) : rs[i].name \in Range(targets)
    THEN SelectSeq(rs, LAMBDA r : r.name \in Range(targets))
    ELSE rs

\* targetedRepos of run
SelectTargeted(rs, targets) ==
  IF targets # Null
    THEN SelectSeq(rs, LAMBDA r : r.name \in Range(targets))
    ELSE rs

\* process.env of the orchestrator: the environment it was started in, here
\* with a REPO_NAME left over from the calling shell
ProcessEnv == ("PATH" :> "/usr/bin") @@ ("REPO_NAME" :> "Pyrrha-Stale")

\* variant: the mode is per-tool state, lint-cpp.sh is always run in check mode
Invocation_PerTool(scriptName, repoPath, repoName, fix, verb, status, output) ==
  [ script |-> PathJoin(PathJoin(TOOLS_ROOT, "scripts"), scriptName),
    args   |-> IF fix /\ scriptName # "lint-cpp.sh" THEN <<"--fix">> ELSE <<>>,
    cwd    |-> repoPath,
    env    |-> [REPO_PATH |-> repoPath, REPO_NAME |-> repoName, TOOLS_ROOT |-> TOOLS_ROOT]
                 @@ ProcessEnv,
    stdio  |-> IF verb THEN "inherit" ELSE "pipe",
    status |-> status,
    output |-> output ]

\* variant: process.env is spread after the variables of the invocation
Invocation_EnvFirst(scriptName, repoPath, repoName, fix, verb, status, output) ==
  [ script |-> PathJoin(PathJoin(TOOLS_ROOT, "scripts"), scriptName),
    args   |-> IF fix THEN <<"--fix">> ELSE <<>>,
    cwd    |-> repoPath,
    env    |-> ProcessEnv
                 @@ [REPO_PATH |-> repoPath, REPO_NAME |-> repoName, TOOLS_ROOT |-> TOOLS_ROOT],
    stdio  |-> IF verb THEN "inherit" ELSE "pipe",
    status |-> status,
    output |-> output ]

\* runScript, the command: what execSync is given and what it observed
Invocation(scriptName, repoPath, repoName, fix, verb, status, output) ==
  [ script |-> PathJoin(PathJoin(TOOLS_ROOT, "scripts"), scriptName),
    args   |-> IF fix THEN <<"--fix">> ELSE <<>>,
    cwd    |-> repoPath,
    env    |-> [REPO_PATH |-> repoPath, REPO_NAME |-> repoName, TOOLS_ROOT |-> TOOLS_ROOT]
                 @@ ProcessEnv,
    stdio  |-> IF verb THEN "inherit" ELSE "pipe",
    status |-> status,
    output |-> output ]

\* execSync throws when the command exits with a status other than 0
ExecSyncThrows(status, output) == status # 0

\* variant: success is also read from the output of the script
runScriptOutcome_ParsesOutput(exists, status, output) ==
  IF ~exists THEN [threw |-> FALSE, value |-> FALSE]
  ELSE IF ExecSyncThrows(status, output)
         THEN [threw |-> FALSE, value |-> FALSE]
         ELSE [threw |-> FALSE, value |-> (output = "")]

\* variant: no try/catch around execSync
runScriptOutcome_NoCatch(exists, status, output) ==
  IF ~exists THEN [threw |-> FALSE, value |-> FALSE]
  ELSE IF ExecSyncThrows(status, output)
         THEN [threw |-> TRUE, value |-> FALSE]
         ELSE [threw |-> FALSE, value |-> TRUE]

\* variant: a missing script is an exception
runScriptOutcome_MissingThrows(exists, status, output) ==
  IF ~exists THEN [threw |-> TRUE, value |-> FALSE]
  ELSE IF ExecSyncThrows(status, output)
         THEN [threw |-> FALSE, value |-> FALSE]
         ELSE [threw |-> FALSE, value |-> TRUE]

\* runScript, the outcome: the value returned, or the exception propagated
runScriptOutcome(exists, status, output) ==
  IF ~exists THEN [threw |-> FALSE, value |-> FALSE]
  ELSE IF ExecSyncThrows(status, output)
         THEN [threw |-> FALSE, value |-> FALSE]
         ELSE [threw |-> FALSE, value |-> TRUE]

\* variant: the loops stop at the first failure
LoopBreaks_OnFailure(success) == ~success

\* the for..of loops of lintRepository and run have no break: the loop goes
\* on to the next element whatever the result just pushed
LoopBreaks(success) == FALSE

\* variant: only the last result counts
AllPassed_LastOnly(rs) == Len(rs) = 0 \/ rs[Len(rs)].success

\* variant: a repository without results is not passed
AllPassed_NonEmpty(rs) == Len(rs) > 0 /\ \A i \in 1..Len(rs) : rs[i].success

\* results.every(r => r.success)
AllPassed(rs) == \A i \in 1..Len(rs) : rs[i].success

\* ------------------------------------------------------------------------
\* Initial states
\* ------------------------------------------------------------------------
\* no classification is asked for
ClassOff ==
  /\ repoFiles = <<>>
  /\ profiles = <<>>

\* no lint script is run by hand
ShellOff ==
  /\ shScript = "none"
  /\ shFix = FALSE
  /\ shFails = {}
  /\ shIssues = 0
  /\ shPc = 0
  /\ shCwd = <<>>
  /\ shRan = <<>>
  /\ shExit = NoExit

\* no watch or mobile script is run
WatchOff ==
  /\ wScript = "none"
  /\ wArgs = [option |-> "", target |-> ""]
  /\ wDirs = <<>>
  /\ wIdx = 0
  /\ wExitCode = 0
  /\ wProcessed = 0
  /\ wRan = <<>>
  /\ wExit = NoExit
  /\ wPc = "off"

InitWith(a, w, table) ==
  /\ ClassOff /\ ShellOff /\ WatchOff
  /\ argv = a
  /\ workspace = w
  /\ configs = table
  /\ pc = "main"
  /\ fixMode = FALSE
  /\ verbose = FALSE
  /\ targetRepos = Null
  /\ repos = <<>>
  /\ targetedRepos = <<>>
  /\ repoIdx = 1
  /\ scriptIdx = 1
  /\ scriptResults = <<>>
  /\ results = <<>>
  /\ allResults = <<>>
  /\ invocations = <<>>
  /\ console = <<>>
  /\ exitCode = NoExit
  /\ running = <<>>
  /\ started = <<>>
  /\ written = {}
  /\ hookPc = "off"
  /\ hookRepo = ""
  /\ hookExit = NoExit

Init == \E a \in Argvs, w \in Workspaces : InitWith(a, w, REPO_CONFIGS)

\* lintRepository takes the script list from its argument: the lists it is
\* given when the entry of Pyrrha-Dashboard holds any list of these scripts
ScriptNames == {"lint-nodejs.sh", "lint-python.sh"}

ScriptLists == SeqsUpTo(ScriptNames, MaxScripts)

ListTables ==
  { [REPO_CONFIGS EXCEPT !["Pyrrha-Dashboard"].scripts = l] : l \in ScriptLists }

ListArgvs ==
  { [flags |-> f, repo |-> r] :
      f \in {{}, {"--fix"}, {"--help"}}, r \in {NoRepoArg, Join(<<"Pyrrha-Dashboard">>)} }

\* the listings made of two configured repositories and an unconfigured one
ListWorkspaces ==
  { w \in Workspaces :
      Range(w) \subseteq {"Pyrrha-Dashboard", "Pyrrha-Firmware", "Pyrrha-Sensor"} }

InitLists ==
  \E a \in ListArgvs, w \in ListWorkspaces, t \in ListTables : InitWith(a, w, t)

\* the repositories a pre-commit hook can be installed in: the configured
\* ones and one more
HookRepoNames == Range(RepoConfigKeys) \cup {"Pyrrha-Sensor"}

\* a commit is made in a repository with the hook: the hook starts, node does
\* not run yet
InitHook ==
  \E name \in HookRepoNames, w \in Workspaces :
    /\ ClassOff /\ ShellOff /\ WatchOff
    /\ argv = [flags |-> {}, repo |-> NoRepoArg]
    /\ workspace = w
    /\ configs = REPO_CONFIGS
    /\ pc = "notStarted"
    /\ fixMode = FALSE
    /\ verbose = FALSE
    /\ targetRepos = Null
    /\ repos = <<>>
    /\ targetedRepos = <<>>
    /\ repoIdx = 1
    /\ scriptIdx = 1
    /\ scriptResults = <<>>
    /\ results = <<>>
    /\ allResults = <<>>
    /\ invocations = <<>>
    /\ console = <<>>
    /\ exitCode = NoExit
    /\ running = <<>>
    /\ started = <<>>
    /\ written = {}
    /\ hookPc = "start"
    /\ hookRepo = name
    /\ hookExit = NoExit

\* node scripts/lint-all.js is not run: the workspace w is only looked at
OrchestratorOff(w) ==
  /\ argv = [flags |-> {}, repo |-> NoRepoArg]
  /\ workspace = w
  /\ configs = REPO_CONFIGS
  /\ pc = "notStarted"
  /\ fixMode = FALSE
  /\ verbose = FALSE
  /\ targetRepos = Null
  /\ repos = <<>>
  /\ targetedRepos = <<>>
  /\ repoIdx = 1
  /\ scriptIdx = 1
  /\ scriptResults = <<>>
  /\ results = <<>>
  /\ allResults = <<>>
  /\ invocations = <<>>
  /\ console = <<>>
  /\ exitCode = NoExit
  /\ running = <<>>
  /\ started = <<>>
  /\ written = {}
  /\ hookPc = "off"
  /\ hookRepo = ""
  /\ hookExit = NoExit

\* the files checkRepository looks for: package.json, requirements.txt and
\* a source matching \.(c|cpp|h|hpp|ino)$
Markers == {"package.json", "requirements.txt", "src/main.ino"}

CppSources == {"src/main.ino"}

\* the directories the marker files are drawn for
MarkedDirs == {"Pyrrha-Dashboard", "Pyrrha-Firmware", "Pyrrha-Sensor"}

\* a workspace with any marker files in its Pyrrha-* directories, before it
\* is classified
InitClassify ==
  \E w \in ListWorkspaces, f \in [MarkedDirs -> SUBSET Markers] :
    /\ OrchestratorOff(w)
    /\ repoFiles = f
    /\ profiles = <<>>
    /\ ShellOff /\ WatchOff

\* ------------------------------------------------------------------------
\* Steps of the process
\* ------------------------------------------------------------------------
\* variant: only the long form asks for the usage
HelpRequested_LongOnly == "--help" \in argv.flags

HelpRequested == "--help" \in argv.flags \/ "-h" \in argv.flags

\* main execution: --help or -h prints the usage and exits 0
ShowUsage ==
  /\ pc = "main"
  /\ HelpRequested
  /\ console' = console \o
       << Line("plain", "Usage", "", 0) >> \o
       [ i \in 1..Len(RepoConfigKeys) |-> Line("plain", "Supported", RepoConfigKeys[i], 0) ]
  /\ exitCode' = 0
  /\ pc' = "exited"
  /\ UNCHANGED << aux, hook, procs, argv, workspace, configs, fixMode, verbose, targetRepos, repos,
                  targetedRepos, repoIdx, scriptIdx, scriptResults, results,
                  allResults, invocations >>

\* new PyrrhaLinter()
Constructor ==
  /\ pc = "main"
  /\ ~HelpRequested
  /\ fixMode' = ("--fix" \in argv.flags)
  /\ verbose' = ("--verbose" \in argv.flags \/ "-v" \in argv.flags)
  /\ targetRepos' = parseTargetRepos(argv)
  /\ pc' = "run"
  /\ UNCHANGED << aux, hook, procs, argv, workspace, configs, repos, targetedRepos, repoIdx,
                  scriptIdx, scriptResults, results, allResults, invocations,
                  console, exitCode >>

\* run, up to the end of discoverRepos; readdirSync or a statSync may throw
Discover ==
  /\ pc = "run"
  /\ \E threw \in BOOLEAN, at \in 0..Len(workspace) :
       /\ ~threw => at = Len(workspace)
       /\ LET found == discoverRepos(workspace, configs,
                                     IF threw /\ at > 0 THEN at - 1 ELSE at)
              head == << Line("header", "Centralized Linting", "", 0),
                         Line("info", IF fixMode THEN "Mode: FIX" ELSE "Mode: CHECK", "", 0) >>
          IN /\ console' = console \o head \o found.logs
             /\ IF threw
                  THEN /\ pc' = "rejected"
                       /\ repos' = repos
                  ELSE /\ pc' = "discovered"
                       /\ repos' = found.repos
  /\ UNCHANGED << aux, hook, procs, argv, workspace, configs, fixMode, verbose, targetRepos,
                  targetedRepos, repoIdx, scriptIdx, scriptResults, results,
                  allResults, invocations, exitCode >>

\* run, from the filter on targetRepos to the start of the loop
SelectTargets ==
  /\ pc = "discovered"
  /\ LET targeted == SelectTargeted(repos, targetRepos)
     IN /\ targetedRepos' = targeted
        /\ IF Len(targeted) = 0
             THEN /\ console' = Append(console,
                                  Line("warn", "No repositories found to lint", "", 0))
                  /\ pc' = "resolved"
             ELSE /\ console' = console \o
                       << Line("info", "Found repositories to lint", "", Len(targeted)) >> \o
                       [ i \in 1..Len(targeted) |->
                           Line("info", targeted[i].config.type, targeted[i].name, 0) ]
                  /\ pc' = "lintRepository"
  /\ repoIdx' = 1
  /\ UNCHANGED << aux, hook, procs, argv, workspace, configs, fixMode, verbose, targetRepos, repos,
                  scriptIdx, scriptResults, results, allResults, invocations,
                  exitCode >>

\* lintRepository, up to the loop over repo.config.scripts
LintRepositoryBegin ==
  /\ pc = "lintRepository"
  /\ console' = Append(console, Line("header", "Linting", targetedRepos[repoIdx].name, 0))
  /\ scriptResults' = <<>>
  /\ scriptIdx' = 1
  /\ pc' = "scripts"
  /\ UNCHANGED << aux, hook, procs, argv, workspace, configs, fixMode, verbose, targetRepos, repos,
                  targetedRepos, repoIdx, results, allResults, invocations,
                  exitCode >>

\* the files of the repository each script writes before it lints, in any
\* mode: the shared configs it copies when they are missing or outdated (for
\* .prettierrc, rewrites in place), the dependencies it installs, the
\* reports its tools leave (bandit, safety, the coverage of yarn test)
SetupFiles ==
     ("lint-nodejs.sh"    :> {".prettierrc.js", "eslint.config.js", "node_modules"})
  @@ ("lint-python.sh"    :> {"pyproject.toml", "venv", "bandit-report.json",
                              "safety-report.json"})
  @@ ("lint-cpp.sh"       :> {".clang-format"})
  @@ ("lint-dashboard.sh" :> {".prettierrc", ".prettierrc.bak", ".prettierrc.js",
                              "eslint.config.shared.js", "node_modules",
                              "pyproject.toml", "venv", "coverage"})

\* variant: the formatters rewrite the sources in check mode too
ScriptWrites_AlwaysFormats(scriptName, fix, outdated, dirty) ==
  (IF outdated THEN SetupFiles[scriptName] ELSE {})
    \cup (IF dirty THEN {"<sources>"} ELSE {})

\* the files a script writes in the repository: the setup files when they
\* are outdated, whatever the mode, and the sources the formatters rewrite
\* in fix mode
ScriptWrites(scriptName, fix, outdated, dirty) ==
  (IF outdated THEN SetupFiles[scriptName] ELSE {})
    \cup (IF fix /\ dirty THEN {"<sources>"} ELSE {})

\* variant: a failed script makes the loop start the list again
NextScriptIdx_Restart(idx, n, success) ==
  IF success THEN idx + 1 ELSE 1

\* variant: a failed script is run again until it succeeds
NextScriptIdx_RetryFailed(idx, n, success) ==
  IF success THEN idx + 1 ELSE idx

\* the for loop of lintRepository: the next script after a result
NextScriptIdx(idx, n, success) ==
  IF LoopBreaks(success) THEN n + 1 ELSE idx + 1

\* the command of the current turn of the loop
CurrentCommand ==
  [ repo |-> targetedRepos[repoIdx].name,
    script |-> targetedRepos[repoIdx].config.scripts[scriptIdx],
    ri |-> repoIdx, si |-> scriptIdx ]

\* variant: the command is started with spawn and not waited for
RunScript_Spawn ==
  /\ pc = "scripts"
  /\ scriptIdx <= Len(targetedRepos[repoIdx].config.scripts)
  /\ LET repo == targetedRepos[repoIdx]
         scriptName == repo.config.scripts[scriptIdx]
     IN /\ running' = Append(running, CurrentCommand)
        /\ started' = Append(started, CurrentCommand)
        /\ console' = console \o << Line("info", "Running", scriptName, 0),
                                    Line("success", "completed", scriptName, 0) >>
        /\ scriptResults' = Append(scriptResults, [script |-> scriptName, success |-> TRUE])
        /\ allResults' = Append(allResults,
                            [repo |-> repo.name, script |-> scriptName, success |-> TRUE,
                             invoked |-> TRUE, status |-> 0, output |-> ""])
        /\ scriptIdx' = scriptIdx + 1
        /\ pc' = "scripts"
  /\ UNCHANGED << aux, hook, written, invocations, argv, workspace, configs, fixMode,
                  verbose, targetRepos, repos, targetedRepos, repoIdx, results,
                  exitCode >>

\* one turn of the loop of lintRepository, runScript up to execSync: a
\* missing script is a failed result, any other is started and waited for
RunScript ==
  /\ pc = "scripts"
  /\ scriptIdx <= Len(targetedRepos[repoIdx].config.scripts)
  /\ \E exists \in BOOLEAN :
       LET repo == targetedRepos[repoIdx]
           scriptName == repo.config.scripts[scriptIdx]
           outcome == runScriptOutcome(FALSE, 0, "")
       IN IF exists
            THEN /\ running' = Append(running, CurrentCommand)
                 /\ started' = Append(started, CurrentCommand)
                 /\ console' = Append(console, Line("info", "Running", scriptName, 0))
                 /\ pc' = "execSync"
                 /\ UNCHANGED << scriptResults, allResults, scriptIdx >>
            ELSE /\ console' = Append(console, Line("error", "Script not found", scriptName, 0))
                 /\ UNCHANGED << running, started >>
                 /\ IF outcome.threw
                      THEN /\ pc' = "rejected"
                           /\ UNCHANGED << scriptResults, allResults, scriptIdx >>
                      ELSE /\ pc' = "scripts"
                           /\ scriptResults' = Append(scriptResults,
                                                 [script |-> scriptName, success |-> outcome.value])
                           /\ allResults' = Append(allResults,
                                [repo |-> repo.name, script |-> scriptName,
                                 success |-> outcome.value, invoked |-> FALSE,
                                 status |-> 0, output |-> ""])
                           /\ scriptIdx' = NextScriptIdx(scriptIdx, Len(repo.config.scripts),
                                                      outcome.value)
  /\ UNCHANGED << aux, hook, written, invocations, argv, workspace, configs, fixMode,
                  verbose, targetRepos, repos, targetedRepos, repoIdx, results,
                  exitCode >>

\* execSync returns or throws when the command has exited: the rest of
\* runScript and results.push of lintRepository
ExecSyncReturns ==
  /\ pc = "execSync"
  /\ running # <<>>
  /\ \E status \in ExitCodes, output \in Outputs, outdated \in BOOLEAN, dirty \in BOOLEAN :
       LET    repo == targetedRepos[repoIdx]
              scriptName == repo.config.scripts[scriptIdx]
              inv == Invocation(scriptName, repo.path, repo.name, fixMode, verbose,
                                status, output)
              outcome == runScriptOutcome(TRUE, status, output)
              result == [repo |-> repo.name, script |-> scriptName,
                         success |-> outcome.value, invoked |-> TRUE,
                         status |-> status, output |-> output]
       IN    /\ running' = Tail(running)
             /\ invocations' = Append(invocations, inv)
             /\ written' = written \cup
                  { << repo.name, f >> :
                      f \in ScriptWrites(scriptName, fixMode, outdated, dirty) }
             /\ console' = console \o
                  (IF ExecSyncThrows(status, output)
                     THEN IF outcome.threw THEN <<>>
                          ELSE << Line("error", "failed", scriptName, 0) >> \o
                               (IF verbose THEN << Line("plain", output, "", 0) >>
                                ELSE <<>>)
                     ELSE << Line("success", "completed", scriptName, 0) >>)
             /\ IF outcome.threw
                  THEN /\ pc' = "rejected"
                       /\ UNCHANGED << scriptResults, allResults, scriptIdx >>
                  ELSE /\ pc' = "scripts"
                       /\ scriptResults' = Append(scriptResults,
                                             [script |-> scriptName, success |-> outcome.value])
                       /\ allResults' = Append(allResults, result)
                       /\ scriptIdx' = NextScriptIdx(scriptIdx, Len(repo.config.scripts),
                                                  outcome.value)
  /\ UNCHANGED << aux, hook, started, argv, workspace, configs, fixMode, verbose,
                  targetRepos, repos, targetedRepos, repoIdx, results, exitCode >>

\* lintRepository after the loop, and results.push of run
LintRepositoryEnd ==
  /\ pc = "scripts"
  /\ scriptIdx > Len(targetedRepos[repoIdx].config.scripts)
  /\ LET repo == targetedRepos[repoIdx]
         allPassed == AllPassed(scriptResults)
     IN /\ console' = Append(console,
               Line(IF allPassed THEN "success" ELSE "error",
                    IF allPassed THEN "PASSED" ELSE "FAILED", repo.name, 0))
        /\ results' = Append(results, [repo |-> repo.name, success |-> allPassed])
  /\ repoIdx' = repoIdx + 1
  /\ pc' = IF LoopBreaks(AllPassed(scriptResults)) \/ repoIdx + 1 > Len(targetedRepos)
             THEN "summary" ELSE "lintRepository"
  /\ UNCHANGED << aux, hook, procs, argv, workspace, configs, fixMode, verbose, targetRepos, repos,
                  targetedRepos, scriptIdx, scriptResults, allResults, invocations,
                  exitCode >>

\* variant: the passed group holds every result
ReposWith_PassedIsAll(rs, ok) ==
  IF ok THEN rs ELSE SelectSeq(rs, LAMBDA r : r.success = ok)

\* variant: the failed group is filtered like the passed group
ReposWith_SameFilter(rs, ok) == SelectSeq(rs, LAMBDA r : r.success)

\* the names of the results with the given success, in order
ReposWith(rs, ok) == SelectSeq(rs, LAMBDA r : r.success = ok)

\* run, the summary: process.exit(1) when a repository failed
Summary ==
  /\ pc = "summary"
  /\ LET passed == ReposWith(results, TRUE)
         failed == ReposWith(results, FALSE)
     IN /\ console' = console \o
             << Line("header", "Summary", "", 0),
                Line("success", "Passed", "", Len(passed)) >> \o
             (IF Len(failed) > 0
                THEN << Line("error", "Failed", "", Len(failed)) >> \o
                     [ i \in 1..Len(failed) |-> Line("error", "failed repo", failed[i].repo, 0) ]
                ELSE << Line("success", "All repositories passed linting", "", 0) >>)
        /\ IF Len(failed) > 0
             THEN /\ exitCode' = 1
                  /\ pc' = "exited"
             ELSE /\ exitCode' = exitCode
                  /\ pc' = "resolved"
  /\ UNCHANGED << aux, hook, procs, argv, workspace, configs, fixMode, verbose, targetRepos, repos,
                  targetedRepos, repoIdx, scriptIdx, scriptResults, results,
                  allResults, invocations >>

\* the promise of run() resolved: the process ends with exit code 0
ExitNormally ==
  /\ pc = "resolved"
  /\ exitCode' = 0
  /\ pc' = "exited"
  /\ UNCHANGED << aux, hook, procs, argv, workspace, configs, fixMode, verbose, targetRepos, repos,
                  targetedRepos, repoIdx, scriptIdx, scriptResults, results,
                  allResults, invocations, console >>

\* variant: the catch handler prints the error and lets the process end
FatalError_Swallowed ==
  /\ pc = "rejected"
  /\ console' = Append(console, Line("error", "Fatal error:", "", 0))
  /\ exitCode' = 0
  /\ pc' = "exited"
  /\ UNCHANGED << aux, hook, procs, argv, workspace, configs, fixMode, verbose, targetRepos, repos,
                  targetedRepos, repoIdx, scriptIdx, scriptResults, results,
                  allResults, invocations >>

\* the promise of run() rejected: the catch handler exits with code 1
FatalError ==
  /\ pc = "rejected"
  /\ console' = Append(console, Line("error", "Fatal error:", "", 0))
  /\ exitCode' = 1
  /\ pc' = "exited"
  /\ UNCHANGED << aux, hook, procs, argv, workspace, configs, fixMode, verbose, targetRepos, repos,
                  targetedRepos, repoIdx, scriptIdx, scriptResults, results,
                  allResults, invocations >>

Next ==
  \/ ShowUsage
  \/ Constructor
  \/ Discover
  \/ SelectTargets
  \/ LintRepositoryBegin
  \/ RunScript
  \/ ExecSyncReturns
  \/ LintRepositoryEnd
  \/ Summary
  \/ ExitNormally
  \/ FatalError

Spec == Init /\ [][Next]_vars

\* variant: the case has an arm for the Android application too
HookLints_MobileToo(name) ==
  name \in {"Pyrrha-Dashboard", "Pyrrha-Rules-Decision", "Pyrrha-MQTT-Client",
            "Pyrrha-WebSocket-Server", "Pyrrha-Device-Simulator",
            "Pyrrha-Website", "Pyrrha-Watch-App", "Pyrrha-Firmware",
            "Pyrrha-Mobile-App"}

\* the arms of the case of the pre-commit hook that run lint-all.js
HookLints(name) ==
  name \in {"Pyrrha-Dashboard", "Pyrrha-Rules-Decision", "Pyrrha-MQTT-Client",
            "Pyrrha-WebSocket-Server", "Pyrrha-Device-Simulator",
            "Pyrrha-Website", "Pyrrha-Watch-App", "Pyrrha-Firmware"}

\* variant: the test after esac is -gt 1
HookExit_AboveOne(status) == IF status > 1 THEN 1 ELSE 0

\* the test after esac: exit 1 when the status of the arm is not 0, else the
\* hook reaches its end
HookExit(status) == IF status # 0 THEN 1 ELSE 0

\* an arm of the case: cd "$TOOLS_ROOT" && node scripts/lint-all.js
\* --repo=$REPO_NAME; when cd fails node does not run and the status is 1
HookDispatch ==
  /\ hookPc = "start"
  /\ HookLints(hookRepo)
  /\ \E cdOk \in BOOLEAN :
       IF cdOk
         THEN /\ argv' = [flags |-> {}, repo |-> Join(<< hookRepo >>)]
              /\ pc' = "main"
              /\ hookPc' = "linting"
              /\ UNCHANGED hookExit
         ELSE /\ hookPc' = "done"
              /\ hookExit' = HookExit(1)
              /\ UNCHANGED << argv, pc >>
  /\ UNCHANGED << aux, hookRepo, procs, workspace, configs, fixMode, verbose,
                  targetRepos, repos, targetedRepos, repoIdx, scriptIdx,
                  scriptResults, results, allResults, invocations, console,
                  exitCode >>

\* the default arm of the case: exit 0
HookNoConfig ==
  /\ hookPc = "start"
  /\ ~HookLints(hookRepo)
  /\ hookPc' = "done"
  /\ hookExit' = 0
  /\ UNCHANGED << aux, hookRepo, procs, argv, workspace, configs, pc, fixMode, verbose,
                  targetRepos, repos, targetedRepos, repoIdx, scriptIdx,
                  scriptResults, results, allResults, invocations, console,
                  exitCode >>

\* node has exited: the test after esac
HookFinish ==
  /\ hookPc = "linting"
  /\ pc = "exited"
  /\ hookPc' = "done"
  /\ hookExit' = HookExit(exitCode)
  /\ UNCHANGED << aux, hookRepo, procs, argv, workspace, configs, pc, fixMode, verbose,
                  targetRepos, repos, targetedRepos, repoIdx, scriptIdx,
                  scriptResults, results, allResults, invocations, console,
                  exitCode >>

\* the hook and the process it launches; the hook never passes --help
NextHook ==
  \/ HookDispatch
  \/ HookNoConfig
  \/ HookFinish
  \/ Constructor
  \/ Discover
  \/ SelectTargets
  \/ LintRepositoryBegin
  \/ RunScript
  \/ ExecSyncReturns
  \/ LintRepositoryEnd
  \/ Summary
  \/ ExitNormally
  \/ FatalError

SpecHook == InitHook /\ [][NextHook]_vars

\* the number of times the workspace is classified
MaxRuns == 2

\* variant: the repos are pushed onto a field of the linter
NewRepos_Field(previous) == previous

\* const repos = [] of discoverRepos: each call starts from an empty array
NewRepos(previous) == << >>

\* checkRepository, the stacks it reports as detected
checkRepository(files) ==
  (IF "package.json" \in files THEN {"nodejs"} ELSE {})
    \cup (IF "requirements.txt" \in files THEN {"python"} ELSE {})
    \cup (IF files \cap CppSources # {} THEN {"cpp"} ELSE {})

\* the filter of WorkspaceChecker.run and of discoverRepos on the listing
PyrrhaDirs(items) ==
  { items[i] : i \in { j \in 1..Len(items) :
       /\ IsDirectory(items[j]) /\ StartsWithPyrrha(items[j])
       /\ items[j] # "Pyrrha-Development-Tools" } }

\* one classification of the workspace: discoverRepos for the configs, and
\* checkRepository for the detected stacks; both only read the directories
Classify ==
  /\ Len(profiles) < MaxRuns
  /\ repos' = NewRepos(repos) \o discoverRepos(workspace, configs, Len(workspace)).repos
  /\ profiles' = Append(profiles,
        [ repos |-> repos',
          stacks |-> [ n \in PyrrhaDirs(workspace) |-> checkRepository(repoFiles[n]) ] ])
  /\ UNCHANGED << repoFiles, shellVars, watchVars, hook, procs, argv, workspace,
                  configs, pc, fixMode, verbose, targetRepos, targetedRepos,
                  repoIdx, scriptIdx, scriptResults, results, allResults,
                  invocations, console, exitCode >>

SpecClassify == InitClassify /\ [][Classify]_vars

\* ------------------------------------------------------------------------
\* The lint scripts, run by bash
\* ------------------------------------------------------------------------
\* the number of commands that fail in one run of a script
MaxFailures == 2

\* the number of files clang-format would change
MaxIssues == 2

LintScripts == {"lint-dashboard.sh", "lint-python.sh", "lint-cpp.sh"}

\* a command of a script: its section, the directory change it makes (none
\* for a command other than cd) and, for the right side of a || list, the
\* command whose failure makes it run
Step(name, stage, cd, after) ==
  [name |-> name, stage |-> stage, cd |-> cd, after |-> after]

\* lint-dashboard.sh, its commands in order; a set-up command that its test
\* skips (config up to date, venv present) counts as one that succeeds
DashboardSteps(fix) ==
  << Step("cd REPO_PATH", "start", << "/" >>, ""),
     Step("test -f pyrrha-dashboard/package.json", "start", << >>, ""),
     Step("cd pyrrha-dashboard", "start", << "pyrrha-dashboard" >>, ""),
     Step("copy shared configs", "web", << >>, ""),
     Step("yarn install", "web", << >>, ""),
     Step(IF fix THEN "yarn format:prettier" ELSE "yarn format:diff", "web", << >>, ""),
     Step(IF fix THEN "yarn prettier --write" ELSE "yarn prettier --check", "web", << >>,
          IF fix THEN "yarn format:prettier" ELSE "yarn format:diff"),
     Step(IF fix THEN "yarn eslint . --fix" ELSE "yarn eslint .", "web", << >>, ""),
     Step("yarn test", "web", << >>, ""),
     Step("cd api-main", "python", << "api-main" >>, ""),
     Step("copy pyproject.toml", "python", << >>, ""),
     Step("python3 -m venv venv", "python", << >>, ""),
     Step(IF fix THEN "black ." ELSE "black --check", "python", << >>, ""),
     Step(IF fix THEN "isort ." ELSE "isort --check-only", "python", << >>, ""),
     Step("flake8", "python", << >>, ""),
     Step("mypy", "python", << >>, ""),
     Step("cd ..", "python", << ".." >>, ""),
     Step("cd api-auth", "auth", << "api-auth" >>, ""),
     Step("npm install", "auth", << >>, ""),
     Step(IF fix THEN "npx prettier --write" ELSE "npx prettier --check", "auth", << >>, ""),
     Step("cd ../..", "auth", << "..", ".." >>, ""),
     Step("find -exec dockerfilelint", "docker", << >>, "") >>

\* lint-python.sh, its commands in order; find Dockerfile is the condition
\* of the last if: it fails in a repository without a Dockerfile
PythonSteps(fix) ==
  << Step("cd REPO_PATH", "setup", << "/" >>, ""),
     Step("copy pyproject.toml", "setup", << >>, ""),
     Step("python3 -m venv venv", "setup", << >>, ""),
     Step("source venv/bin/activate", "setup", << >>, ""),
     Step("pip install --upgrade pip", "setup", << >>, ""),
     Step("pip install linting tools", "setup", << >>, ""),
     Step("pip install -r requirements.txt", "setup", << >>, ""),
     Step("install MariaDB system packages", "setup", << >>, ""),
     Step("pip install mariadb", "setup", << >>, ""),
     Step(IF fix THEN "black ." ELSE "black --check", "lint", << >>, ""),
     Step(IF fix THEN "isort ." ELSE "isort --check-only", "lint", << >>, ""),
     Step("flake8 --select", "lint", << >>, ""),
     Step("flake8 --exit-zero", "lint", << >>, ""),
     Step("mypy", "lint", << >>, ""),
     Step("bandit", "lint", << >>, ""),
     Step("safety", "lint", << >>, ""),
     Step("find Dockerfile", "docker", << >>, ""),
     Step("find -exec dockerfilelint", "docker", << >>, "find Dockerfile") >>

\* lint-cpp.sh, its commands and sections in order
CppSteps(fix) ==
  << Step("cd REPO_PATH", "setup", << "/" >>, ""),
     Step("copy .clang-format", "setup", << >>, ""),
     Step("clang-format available", "setup", << >>, ""),
     Step("find C/C++ files", "setup", << >>, ""),
     Step(IF fix THEN "xargs clang-format -i" ELSE "clang-format check loop",
          "format", << >>, ""),
     Step("static analysis", "analysis", << >>, ""),
     Step("code metrics", "analysis", << >>, ""),
     Step("project structure", "analysis", << >>, ""),
     Step("build verification", "analysis", << >>, ""),
     Step("firmware checks", "analysis", << >>, "") >>

Program(script, fix) ==
  IF script = "lint-dashboard.sh" THEN DashboardSteps(fix)
  ELSE IF script = "lint-python.sh" THEN PythonSteps(fix)
  ELSE CppSteps(fix)

StepNames(script, fix) == { Program(script, fix)[i].name : i \in 1..Len(Program(script, fix)) }

\* the commands whose failure set -e does not see: the left side of a ||
\* list, the condition of an if, flake8 --exit-zero
Tolerated(script) ==
  IF script = "lint-dashboard.sh"
    THEN {"yarn format:prettier", "yarn format:diff", "mypy"}
  ELSE IF script = "lint-python.sh"
    THEN {"pip install -r requirements.txt", "install MariaDB system packages",
          "flake8 --exit-zero", "mypy", "bandit", "safety", "find Dockerfile"}
  ELSE {"static analysis", "code metrics", "project structure",
        "build verification", "firmware checks"}

\* the test of lint-cpp.sh that ends the script with exit 0: no file found
StopsOk(script) ==
  IF script = "lint-cpp.sh" THEN {"find C/C++ files"} ELSE {}

\* variant: the script runs without set -e
ErrExit_Off(script) == FALSE

\* set -e at the head of each script
ErrExit(script) == script \in LintScripts

\* variant: the check ends in failure when files need formatting
FormatCheckStatus_FailsOnIssues(issues) == IF issues > 0 THEN 1 ELSE 0

\* the status of the check loop of lint-cpp.sh: FORMAT_ISSUES is echoed,
\* the if statement that echoes it ends with status 0
FormatCheckStatus(issues) == issues * 0

\* the status of find . -name "Dockerfile*" -exec echo "..." \\; the two
\* backslashes make a literal backslash and an unquoted ; that ends the
\* command, so that find has no end of -exec and fails: missing argument
FindExecStatus == 1

\* the exit status of a command of the run
StepStatus(name, fails, issues) ==
  IF name = "clang-format check loop" THEN FormatCheckStatus(issues)
  ELSE IF name = "find -exec dockerfilelint" THEN FindExecStatus
  ELSE IF name \in fails THEN 1 ELSE 0

\* the commands in the then branch of an if: they run when the condition
\* succeeds; the right side of a || list runs when the left side fails
RunsOnSuccess == {"find -exec dockerfilelint"}

\* the command is not run: it is guarded and its guard decides against it
Skipped(step, fails) ==
  /\ step.after # ""
  /\ IF step.name \in RunsOnSuccess THEN step.after \in fails
                                     ELSE step.after \notin fails

\* variant: cd .. stays in the directory
RECURSIVE ChangeDir_NoParent(_, _, _)
ChangeDir_NoParent(cwd, path, n) ==
  IF n = 0 THEN cwd
  ELSE LET before == ChangeDir_NoParent(cwd, path, n - 1)
       IN IF path[n] = "/" THEN << >>
          ELSE IF path[n] = ".." THEN before
          ELSE Append(before, path[n])

\* cd: the working directory after the first n components of the path
RECURSIVE ChangeDir(_, _, _)
ChangeDir(cwd, path, n) ==
  IF n = 0 THEN cwd
  ELSE LET before == ChangeDir(cwd, path, n - 1)
       IN IF path[n] = "/" THEN << >>
          ELSE IF path[n] = ".." THEN SubSeq(before, 1, Len(before) - 1)
          ELSE Append(before, path[n])

RECURSIVE SubsetsUpTo(_, _)
\* the subsets of S of at most n elements
SubsetsUpTo(S, n) ==
  IF n = 0 THEN { {} }
  ELSE LET smaller == SubsetsUpTo(S, n - 1)
       IN smaller \cup { p \cup {x} : p \in smaller, x \in S }

\* bash starts one of the scripts in a repository, in check or fix mode,
\* with any few of its commands failing
InitScripts ==
  \E script \in LintScripts, fix \in BOOLEAN, issues \in 0..MaxIssues :
    \E fails \in SubsetsUpTo(StepNames(script, fix), MaxFailures) :
      /\ script # "lint-cpp.sh" => issues = 0
      /\ OrchestratorOff(<< >>)
      /\ ClassOff /\ WatchOff
      /\ shScript = script
      /\ shFix = fix
      /\ shFails = fails
      /\ shIssues = issues
      /\ shPc = 1
      /\ shCwd = << >>
      /\ shRan = << >>
      /\ shExit = NoExit

\* bash runs the next command of the script
ShStep ==
  /\ shPc \in 1..Len(Program(shScript, shFix))
  /\ LET step == Program(shScript, shFix)[shPc]
         status == StepStatus(step.name, shFails, shIssues)
     IN IF Skipped(step, shFails)
          THEN /\ shPc' = shPc + 1
               /\ UNCHANGED << shCwd, shRan, shExit >>
          ELSE /\ shRan' = Append(shRan,
                    [name |-> step.name, stage |-> step.stage, cwd |-> shCwd,
                     count |-> IF step.name = "clang-format check loop"
                                 THEN shIssues ELSE 0])
               /\ shCwd' = IF status = 0
                              THEN ChangeDir(shCwd, step.cd, Len(step.cd))
                              ELSE shCwd
               /\ IF status # 0 /\ step.name \in StopsOk(shScript)
                    THEN /\ shExit' = 0
                         /\ shPc' = 0
                    ELSE IF status # 0 /\ step.name \notin Tolerated(shScript)
                              /\ ErrExit(shScript)
                    THEN /\ shExit' = status
                         /\ shPc' = 0
                    ELSE /\ shPc' = shPc + 1
                         /\ UNCHANGED shExit
  /\ UNCHANGED << shScript, shFix, shFails, shIssues, classVars, watchVars, hook,
                  procs, argv, workspace, configs, pc, fixMode, verbose,
                  targetRepos, repos, targetedRepos, repoIdx, scriptIdx,
                  scriptResults, results, allResults, invocations, console,
                  exitCode >>

\* bash reaches the end of the script: the last command is an echo
ShEnd ==
  /\ shPc = Len(Program(shScript, shFix)) + 1
  /\ shExit' = 0
  /\ shPc' = 0
  /\ UNCHANGED << shScript, shFix, shFails, shIssues, shCwd, shRan, classVars,
                  watchVars, hook, procs, argv, workspace, configs, pc, fixMode,
                  verbose, targetRepos, repos, targetedRepos, repoIdx, scriptIdx,
                  scriptResults, results, allResults, invocations, console,
                  exitCode >>

NextScripts ==
  \/ ShStep
  \/ ShEnd

SpecScripts == InitScripts /\ [][NextScripts]_vars

\* the same process when the script lists are arbitrary
SpecLists == InitLists /\ [][Next]_vars

\* the steps the process takes by itself: every step but the return of
\* execSync, which waits for the command
OrchestratorStep ==
  \/ ShowUsage
  \/ Constructor
  \/ Discover
  \/ SelectTargets
  \/ LintRepositoryBegin
  \/ RunScript
  \/ LintRepositoryEnd
  \/ Summary
  \/ ExitNormally
  \/ FatalError

\* the runs over a workspace of two configured repositories, in check mode
\* or for the usage
FairArgvs == { [flags |-> f, repo |-> NoRepoArg] : f \in {{}, {"--help"}} }

InitFair ==
  \E a \in FairArgvs, t \in ListTables :
    InitWith(a, << "Pyrrha-Dashboard", "Pyrrha-Firmware" >>, t)

\* the process goes on while it can, and every command it waits for exits
SpecListsFair ==
  /\ InitFair
  /\ [][Next]_vars
  /\ WF_vars(OrchestratorStep)
  /\ WF_vars(ExecSyncReturns)

\* ------------------------------------------------------------------------
\* Properties
\* ------------------------------------------------------------------------
HasLine(type, msg) == \E i \in 1..Len(console) : console[i].type = type /\ console[i].msg = msg

HasLineFor(msg, name) == \E i \in 1..Len(console) : console[i].msg = msg /\ console[i].name = name

\* the run was aborted by an exception of the orchestration
FatalSeen == HasLine("error", "Fatal error:")

SummaryPrinted == HasLine("header", "Summary")

\* the run went through the summary and ended
Summarised == pc \in {"resolved", "exited"} /\ SummaryPrinted

EverySucceeded(rs) == \A i \in 1..Len(rs) : rs[i].success

ResultsOfRepo(name) == SelectSeq(allResults, LAMBDA r : r.repo = name)

\* the number printed on the summary line msg, -1 when there is no such line
SummaryCount(msg) ==
  IF \E i \in 1..Len(console) : console[i].msg = msg
    THEN console[CHOOSE i \in 1..Len(console) : console[i].msg = msg].num
    ELSE -1

\* C1 as stated: a run that is not a --help run exits with 0 if and only if
\* every script result of the run is a success, and with 1 otherwise.
C1_ExitZeroIffAllSucceeded ==
  (pc = "exited" /\ ~HelpRequested) =>
     /\ exitCode \in {0, 1}
     /\ (exitCode = 0) <=> EverySucceeded(allResults)

\* C1 amended: a run that is not a --help run and is not aborted by an
\* exception of the orchestration exits with 0 if and only if every script
\* result of the run is a success, and with 1 otherwise; an aborted run exits
\* with 1 although no script failed.
C1_ExitZeroIffAllSucceededUnlessFatal ==
  (pc = "exited" /\ ~HelpRequested) =>
     /\ exitCode \in {0, 1}
     /\ ~FatalSeen => ((exitCode = 0) <=> EverySucceeded(allResults))
     /\ FatalSeen => (exitCode = 1 /\ allResults = <<>>)

C1_Witness ==
  /\ pc = "exited" /\ ~HelpRequested /\ ~FatalSeen
  /\ exitCode = 1
  /\ \E i, j \in 1..Len(allResults) : allResults[i].success /\ ~allResults[j].success

\* C2: lintRepository reports a repository as passed if and only if every
\* script of its list returned success, wherever a failed script stands.
C2_PassedIffEveryScript ==
  \A k \in 1..Len(results) :
     LET name == results[k].repo
     IN /\ results[k].success <=> EverySucceeded(ResultsOfRepo(name))
        /\ HasLineFor("PASSED", name) <=> results[k].success
        /\ HasLineFor("FAILED", name) <=> ~results[k].success

C2_Witness ==
  \E k \in 1..Len(results) :
     LET rs == ResultsOfRepo(results[k].repo)
     IN /\ Len(rs) = 2
        /\ ~rs[1].success
        /\ rs[2].success
        /\ ~results[k].success

\* C3: no early termination: when the loop of run is over, one result is
\* recorded for each script of each targeted repository, in list order,
\* whatever failed before.
C3_NoEarlyTermination ==
  (pc = "summary") =>
     /\ Len(results) = Len(targetedRepos)
     /\ \A i \in 1..Len(targetedRepos) :
          LET rs == ResultsOfRepo(targetedRepos[i].name)
          IN /\ results[i].repo = targetedRepos[i].name
             /\ [ j \in 1..Len(rs) |-> rs[j].script ] = targetedRepos[i].config.scripts

C3_Witness ==
  /\ pc = "summary"
  /\ Len(results) = 2
  /\ Len(allResults) = 3
  /\ ~allResults[1].success
  /\ allResults[2].repo = allResults[1].repo

DiscoveredNames == { repos[i].name : i \in 1..Len(repos) }

PositionOf(name) == CHOOSE i \in 1..Len(workspace) : workspace[i] = name

\* C4: with --repo=A,B the repositories linted and summarised are exactly
\* the requested ones among the repositories of the workspace, in the order
\* of the workspace whatever the order they are written in, and no other
\* repository of the workspace is touched.
C4_RepoFilterExact ==
  (targetRepos # Null) =>
     LET want == Range(targetRepos) \cap DiscoveredNames
     IN /\ \A i \in 1..Len(invocations) : invocations[i].env.REPO_NAME \in Range(targetRepos)
        /\ \A i \in 1..Len(allResults) : allResults[i].repo \in Range(targetRepos)
        /\ (pc = "summary" \/ Summarised) =>
              /\ { results[i].repo : i \in 1..Len(results) } = want
              /\ Len(results) = Cardinality(want)
              /\ \A i, j \in 1..Len(results) :
                   i < j => PositionOf(results[i].repo) < PositionOf(results[j].repo)
        /\ Summarised =>
              SummaryCount("Passed") + (IF SummaryCount("Failed") = -1 THEN 0
                                        ELSE SummaryCount("Failed")) = Cardinality(want)

C4_Witness ==
  /\ targetRepos = << "Pyrrha-Mobile-App", "Pyrrha-Dashboard" >>
  /\ workspace = << "Pyrrha-Dashboard", "Pyrrha-Firmware", "Pyrrha-Mobile-App" >>
  /\ Summarised
  /\ [ i \in 1..Len(results) |-> results[i].repo ] = << "Pyrrha-Dashboard", "Pyrrha-Mobile-App" >>

\* C5: when --repo names known repositories and a name outside the known set,
\* a warning is reported, no script is invoked for the unknown name and
\* every valid target is linted.
C5_UnknownNameWarned ==
  (targetRepos # Null /\ pc = "summary"
     /\ Range(targetRepos) \cap DOMAIN configs # {}
     /\ Range(targetRepos) \ DOMAIN configs # {}) =>
       /\ \E i \in 1..Len(console) : console[i].type = "warn"
       /\ \A i \in 1..Len(invocations) : invocations[i].env.REPO_NAME \in DOMAIN configs
       /\ { results[i].repo : i \in 1..Len(results) } = Range(targetRepos) \cap DiscoveredNames

\* every name given to --repo= is outside the known set
AllUnknown == targetRepos # Null /\ Range(targetRepos) \cap DOMAIN configs = {}

\* C6 as stated: when every name given to --repo is outside the known set
\* (and the enumeration of the workspace does not throw), the run warns,
\* targets nothing, invokes nothing, reports a summary with total 0 and
\* exits with 0.
C6_AllUnknownSummaryZero ==
  (pc = "exited" /\ AllUnknown /\ ~FatalSeen) =>
     /\ \E i \in 1..Len(console) : console[i].type = "warn"
     /\ targetedRepos = <<>>
     /\ invocations = <<>>
     /\ SummaryPrinted /\ SummaryCount("Passed") = 0
     /\ exitCode = 0

\* C6 amended: when every name given to --repo is outside the known set and
\* the enumeration of the workspace does not throw, the run warns that no
\* repository was found, targets nothing, invokes nothing, prints no summary
\* and exits with 0.
C6_AllUnknownNoSummary ==
  (pc = "exited" /\ AllUnknown /\ ~FatalSeen) =>
     /\ HasLine("warn", "No repositories found to lint")
     /\ targetedRepos = <<>>
     /\ invocations = <<>>
     /\ allResults = <<>>
     /\ ~SummaryPrinted
     /\ exitCode = 0

C6_Witness ==
  /\ pc = "exited" /\ AllUnknown /\ ~FatalSeen
  /\ Len(repos) >= 2

\* C7: every repository of REPO_CONFIGS has a script, except
\* Pyrrha-Mobile-App whose list is empty; a repository with an empty list is
\* linted with no invocation and reported as passed.
C7_EmptyListPasses ==
  /\ \A n \in DOMAIN configs : (configs[n].scripts = <<>>) <=> (n = "Pyrrha-Mobile-App")
  /\ \A k \in 1..Len(results) :
       LET name == results[k].repo
       IN configs[name].scripts = <<>> =>
            /\ results[k].success
            /\ HasLineFor("PASSED", name)
            /\ ResultsOfRepo(name) = <<>>
            /\ \A i \in 1..Len(invocations) : invocations[i].env.REPO_NAME # name

C7_Witness ==
  /\ Summarised
  /\ \E k \in 1..Len(results) : results[k].repo = "Pyrrha-Mobile-App" /\ results[k].success

\* C8: the success recorded for an invocation is true exactly when the
\* command exited with status 0, whatever it wrote.
C8_SuccessIsExitStatus ==
  \A i \in 1..Len(allResults) :
     allResults[i].invoked => (allResults[i].success <=> (allResults[i].status = 0))

C8_Witness ==
  \E i, j \in 1..Len(allResults) :
     /\ allResults[i].invoked /\ allResults[i].status = 0
     /\ allResults[i].output # "" /\ allResults[i].success
     /\ allResults[j].invoked /\ allResults[j].status # 0
     /\ allResults[j].output = "" /\ ~allResults[j].success

\* C9: a script that exits non-zero never makes runScript throw: every
\* command run has its result recorded, a non-zero exit as a failure, and
\* the run is never aborted once a command has been run.
C9_NonZeroExitIsAResult ==
  /\ Len(invocations) <= Len(allResults)
  /\ \A i \in 1..Len(allResults) :
       (allResults[i].invoked /\ allResults[i].status # 0) => ~allResults[i].success
  /\ (pc = "rejected" \/ FatalSeen) => invocations = <<>>

C9_Witness ==
  /\ Summarised
  /\ Len(allResults) >= 2
  /\ allResults[1].invoked /\ allResults[1].status # 0 /\ ~allResults[1].success

\* C10: the mode is read once from --fix and every command of the run gets
\* the same mode: all of them --fix, or none.
C10_OneModeForAll ==
  /\ (pc # "main" /\ ~HelpRequested) => (fixMode <=> "--fix" \in argv.flags)
  /\ \A i \in 1..Len(invocations) :
       invocations[i].args = (IF "--fix" \in argv.flags THEN <<"--fix">> ELSE <<>>)

C10_Witness ==
  /\ fixMode
  /\ Len(invocations) >= 2
  /\ invocations[1].script # invocations[2].script
  /\ \A i \in 1..Len(invocations) : invocations[i].args = <<"--fix">>

\* the command results that ran a command, in order
InvokedResults == SelectSeq(allResults, LAMBDA r : r.invoked)

\* the variables runScript puts in the environment of a command
ScopedVariables == {"REPO_PATH", "REPO_NAME", "TOOLS_ROOT"}

\* C11 as stated: every command gets the repository path, the repository
\* name, the tools root and the fix/check mode as environment variables.
C11_EnvCarriesMode ==
  \A i \in 1..Len(invocations) :
     /\ ScopedVariables \subseteq DOMAIN invocations[i].env
     /\ \E v \in DOMAIN invocations[i].env : v \notin ScopedVariables \cup DOMAIN ProcessEnv

\* C11 amended: every command gets, as environment variables of that command
\* alone, the path and the name of the repository being linted and the
\* tools root, on top of the environment of the orchestrator; the mode is
\* not an environment variable, it is the argument --fix of the command.
C11_EnvScopedModeAsArgument ==
  /\ Len(InvokedResults) = Len(invocations)
  /\ \A i \in 1..Len(invocations) :
       LET inv == invocations[i]
           name == InvokedResults[i].repo
       IN /\ DOMAIN inv.env = ScopedVariables \cup DOMAIN ProcessEnv
          /\ inv.env.REPO_NAME = name
          /\ inv.env.REPO_PATH = << WORKSPACE_ROOT, name >>
          /\ inv.cwd = << WORKSPACE_ROOT, name >>
          /\ inv.env.TOOLS_ROOT = TOOLS_ROOT
          /\ inv.env.PATH = ProcessEnv.PATH
          /\ inv.args = (IF fixMode THEN <<"--fix">> ELSE <<>>)

C11_Witness ==
  /\ Len(invocations) = 2
  /\ fixMode
  /\ invocations[1].env.REPO_NAME = "Pyrrha-Dashboard"
  /\ invocations[2].env.REPO_NAME = "Pyrrha-Firmware"

HelpAsked == argv.flags \cap {"--help", "-h"} # {}

\* C12: with --help or -h among the arguments, whatever the others, the
\* program prints the usage with the names of REPO_CONFIGS and exits with 0;
\* it discovers no repository and runs no script.
C12_HelpOnlyPrintsUsage ==
  HelpAsked =>
     /\ pc \in {"main", "exited"}
     /\ repos = <<>> /\ targetedRepos = <<>>
     /\ invocations = <<>> /\ allResults = <<>>
     /\ pc = "exited" =>
          /\ exitCode = 0
          /\ HasLine("plain", "Usage")
          /\ { console[i].name : i \in { j \in 1..Len(console) : console[j].msg = "Supported" } }
               = DOMAIN REPO_CONFIGS
          /\ \A i \in 1..Len(console) : console[i].type = "plain"

C12_Witness ==
  /\ pc = "exited"
  /\ argv.flags = {"-h", "--fix"}
  /\ argv.repo = Join(<<"Pyrrha-Dashboard">>)
  /\ "Pyrrha-Dashboard" \in Range(workspace)

\* C13: a run given a flag the program does not know (and no --help) exits
\* with code 1.
C13_UnknownFlagExitsOne ==
  (pc = "exited" /\ "--color" \in argv.flags /\ ~HelpAsked) => exitCode = 1

\* a Pyrrha-* directory of the workspace without entry in the table
Unconfigured(item) ==
  /\ IsDirectory(item) /\ StartsWithPyrrha(item)
  /\ item # "Pyrrha-Development-Tools"
  /\ item \notin DOMAIN configs

\* C14: a Pyrrha-* directory without entry in REPO_CONFIGS is warned about
\* and skipped: it is no repository of the run, no command is run for it,
\* and the exit code is 1 only for a failed result of a configured one.
C14_UnconfiguredSkipped ==
  /\ \A i \in 1..Len(workspace) :
       Unconfigured(workspace[i]) =>
          /\ (pc \notin {"main", "run", "rejected"} /\ ~FatalSeen /\ ~HelpAsked)
               => HasLineFor("Unknown repository", workspace[i])
          /\ \A k \in 1..Len(repos) : repos[k].name # workspace[i]
          /\ \A k \in 1..Len(invocations) : invocations[k].env.REPO_NAME # workspace[i]
          /\ \A k \in 1..Len(allResults) : allResults[k].repo # workspace[i]
  /\ (pc = "exited" /\ ~FatalSeen /\ ~HelpAsked) =>
       ((exitCode = 1) <=>
          \E k \in 1..Len(allResults) :
             ~allResults[k].success /\ allResults[k].repo \in DOMAIN configs)

C14_Witness ==
  /\ pc = "exited" /\ exitCode = 0 /\ SummaryPrinted
  /\ workspace = << "Pyrrha-Dashboard", "Pyrrha-Sensor" >>
  /\ targetRepos = Null
  /\ HasLineFor("Unknown repository", "Pyrrha-Sensor")

\* C16: an exception of the orchestration aborts the run at once: no command
\* is run after it, the error is printed and the exit code is 1; a run that
\* ends without such an exception has a result for every targeted repository.
C16_FatalAbortsAtOnce ==
  /\ (pc = "rejected" \/ FatalSeen) =>
        /\ invocations = <<>> /\ allResults = <<>> /\ results = <<>>
        /\ ~SummaryPrinted
  /\ (pc = "exited" /\ FatalSeen) => exitCode = 1
  /\ (pc = "exited" /\ ~HelpAsked) =>
        \/ FatalSeen
        \/ /\ Len(results) = Len(targetedRepos)
           /\ \A i \in 1..Len(results) : results[i].repo = targetedRepos[i].name

C16_Witness ==
  /\ pc = "exited" /\ FatalSeen /\ exitCode = 1
  /\ workspace = << "Pyrrha-Dashboard", "Pyrrha-Sensor", "docs" >>
  /\ HasLineFor("Unknown repository", "Pyrrha-Sensor")

\* the names listed under Failed in the summary
FailedListed ==
  { console[i].name : i \in { j \in 1..Len(console) : console[j].msg = "failed repo" } }

FailedCount == IF SummaryCount("Failed") = -1 THEN 0 ELSE SummaryCount("Failed")

\* C17: in the summary every targeted repository is counted once, as passed
\* or as failed; the failed ones listed are exactly the repositories with a
\* failed script result.
C17_SummaryPartition ==
  Summarised =>
     LET failedRepos == { allResults[i].repo :
                            i \in { j \in 1..Len(allResults) : ~allResults[j].success } }
         names == { targetedRepos[i].name : i \in 1..Len(targetedRepos) }
     IN /\ SummaryCount("Passed") + FailedCount = Len(targetedRepos)
        /\ SummaryCount("Passed") = Cardinality(names \ failedRepos)
        /\ FailedCount = Cardinality(failedRepos)
        /\ FailedListed = failedRepos
        /\ failedRepos \subseteq names
        /\ pc = "exited" => (exitCode = (IF failedRepos = {} THEN 0 ELSE 1))

C17_Witness ==
  /\ pc = "exited" /\ Summarised /\ exitCode = 1
  /\ [ i \in 1..Len(results) |-> results[i] ] =
        << [repo |-> "Pyrrha-Dashboard", success |-> TRUE],
           [repo |-> "Pyrrha-Firmware", success |-> FALSE] >>
  /\ SummaryCount("Passed") = 1 /\ FailedCount = 1
  /\ FailedListed = {"Pyrrha-Firmware"}

\* ------------------------------------------------------------------------
\* C15: a script that is not found
\* ------------------------------------------------------------------------
\* the results of scripts that were not found
NotFoundResults == { i \in 1..Len(allResults) : ~allResults[i].invoked }

\* C15: a script that is not found is recorded as a failed result and its
\* repository ends failed; the process does not abort, and once the loop of
\* run is over every script of every targeted repository has its result.
C15_MissingScriptIsAFailedResult ==
  /\ \A i \in NotFoundResults : ~allResults[i].success
  /\ \A k \in 1..Len(results) :
       (\E i \in NotFoundResults : allResults[i].repo = results[k].repo)
          => ~results[k].success
  /\ HasLine("error", "Script not found") => (pc # "rejected" /\ ~FatalSeen)
  /\ (pc = "summary" \/ Summarised) =>
       /\ Len(results) = Len(targetedRepos)
       /\ \A i \in 1..Len(targetedRepos) :
            Len(ResultsOfRepo(targetedRepos[i].name))
              = Len(targetedRepos[i].config.scripts)
  /\ (pc = "exited" /\ NotFoundResults # {}) => exitCode = 1

C15_Witness ==
  /\ pc = "exited" /\ exitCode = 1
  /\ Len(allResults) = 3
  /\ ~allResults[1].invoked /\ allResults[1].repo = "Pyrrha-Dashboard"
  /\ allResults[2].invoked /\ allResults[2].success
  /\ allResults[3].repo = "Pyrrha-Firmware" /\ allResults[3].success
  /\ Len(results) = 2 /\ ~results[1].success /\ results[2].success

\* ------------------------------------------------------------------------
\* C18: check mode
\* ------------------------------------------------------------------------
CheckMode == "--fix" \notin argv.flags

C19_HookBlocksIffLintFails ==
  /\ hookPc = "linting" => hookExit = NoExit
  /\ (hookPc = "done" /\ pc = "exited") =>
       /\ exitCode # NoExit
       /\ exitCode # 0 => hookExit = 1
       /\ exitCode = 0 => hookExit = 0

C19_Witness ==
  /\ hookPc = "done" /\ pc = "exited"
  /\ exitCode = 1 /\ hookExit = 1
  /\ SummaryPrinted
  /\ \E i \in 1..Len(allResults) :
       allResults[i].repo = hookRepo /\ ~allResults[i].success

\* ------------------------------------------------------------------------
\* C20: sequential execution
\* ------------------------------------------------------------------------
\* C20: at most one command runs at a time and the process waits for it;
\* commands start in the order of the repositories and, within a repository,
\* of its script list; every command started before another has returned
\* before the other starts.
C20_StrictlySequential ==
  /\ Len(running) <= 1
  /\ Len(running) = 1 <=> pc = "execSync"
  /\ Len(started) = Len(invocations) + Len(running)
  /\ \A i, j \in 1..Len(started) :
       i < j => \/ started[i].ri < started[j].ri
                \/ started[i].ri = started[j].ri /\ started[i].si < started[j].si
  /\ \A i \in 1..Len(started) :
       /\ started[i].repo = targetedRepos[started[i].ri].name
       /\ started[i].script = targetedRepos[started[i].ri].config.scripts[started[i].si]

C20_Witness ==
  /\ Len(running) = 1 /\ Len(started) = 3 /\ Len(invocations) = 2
  /\ started[1].ri = 1 /\ started[1].si = 1
  /\ started[2].ri = 1 /\ started[2].si = 2
  /\ started[3].ri = 2 /\ started[3].si = 1

\* ------------------------------------------------------------------------
\* C21: the states of a repository
\* ------------------------------------------------------------------------
\* the names of a sequence of repos
NamesOf(rs) == { rs[i].name : i \in 1..Len(rs) }

\* the state of a directory of the workspace in the run: Pending until
\* discoverRepos attaches its config, Dispatching when lintRepository is
\* entered for it, Running while the loop over its scripts goes on, Passed or
\* Failed once its result is pushed
RepoStatus(name) ==
  IF \E k \in 1..Len(results) : results[k].repo = name
    THEN LET k == CHOOSE k \in 1..Len(results) : results[k].repo = name
         IN IF results[k].success THEN "Passed" ELSE "Failed"
  ELSE IF repoIdx <= Len(targetedRepos) /\ targetedRepos[repoIdx].name = name
            /\ pc \in {"scripts", "execSync"}
    THEN "Running"
  ELSE IF repoIdx <= Len(targetedRepos) /\ targetedRepos[repoIdx].name = name
            /\ pc = "lintRepository"
    THEN "Dispatching"
  ELSE IF name \in NamesOf(repos) THEN "Classified"
  ELSE "Pending"

StatusRank ==
  ("Pending" :> 0) @@ ("Classified" :> 1) @@ ("Dispatching" :> 2)
    @@ ("Running" :> 3) @@ ("Passed" :> 4) @@ ("Failed" :> 4)

\* no script has two results, no command is started twice
NoRetry ==
  /\ \A i, j \in 1..Len(started) :
       (started[i].ri = started[j].ri /\ started[i].si = started[j].si) => i = j
  /\ \A k \in 1..Len(targetedRepos) :
       Len(ResultsOfRepo(targetedRepos[k].name)) <= Len(targetedRepos[k].config.scripts)

\* one step of the run, seen from the repository name
RepoMovesForward(name) ==
  /\ StatusRank[RepoStatus(name)'] >= StatusRank[RepoStatus(name)]
  /\ RepoStatus(name) \in {"Passed", "Failed"} => RepoStatus(name)' = RepoStatus(name)
  /\ (RepoStatus(name)' = "Running" /\ RepoStatus(name) # "Running") =>
        (RepoStatus(name) = "Dispatching" /\ scriptIdx' = 1)
  /\ (RepoStatus(name)' = "Running" /\ RepoStatus(name) = "Running") =>
        scriptIdx' \in {scriptIdx, scriptIdx + 1}
  /\ (RepoStatus(name)' \in {"Passed", "Failed"} /\ RepoStatus(name) \notin {"Passed", "Failed"}) =>
        RepoStatus(name) = "Running"

\* C21: a repository only moves forward through Pending, Classified,
\* Dispatching, Running (its script index growing by one), then Passed or
\* Failed, which it never leaves; no script runs twice for a repository.
C21_RepositoryOnlyMovesForward ==
  [][ /\ \A name \in Range(workspace) : RepoMovesForward(name)
      /\ NoRetry' ]_vars

C21_Witness ==
  /\ pc = "execSync" /\ repoIdx = 2 /\ scriptIdx = 1
  /\ RepoStatus("Pyrrha-Dashboard") = "Failed"
  /\ RepoStatus("Pyrrha-Firmware") = "Running"
  /\ Len(ResultsOfRepo("Pyrrha-Dashboard")) = 2
  /\ ~allResults[1].success /\ allResults[2].success

\* ------------------------------------------------------------------------
\* C22: termination
\* ------------------------------------------------------------------------
RECURSIVE SumOfScripts(_, _)
\* the number of scripts of the first n repos
SumOfScripts(rs, n) ==
  IF n = 0 THEN 0 ELSE SumOfScripts(rs, n - 1) + Len(rs[n].config.scripts)

\* C22: when every command the process waits for exits, the run ends with
\* an exit code and a result for every targeted repository; the number of
\* script results never passes the number of scripts of the targeted
\* repositories; while a command runs the process takes no step of its own,
\* so a command that never exits stalls the run.
C22_TerminatesWhenScriptsDo ==
  /\ <>(/\ pc = "exited"
        /\ exitCode \in ExitCodes
        /\ Len(results) = Len(targetedRepos)
        /\ running = <<>>)
  /\ [](Len(allResults) + Len(running) <= SumOfScripts(targetedRepos, Len(targetedRepos)))
  /\ [](pc = "execSync" => ~ENABLED OrchestratorStep)

C22_Witness ==
  /\ pc = "exited" /\ running = <<>>
  /\ Len(started) = 3 /\ Len(invocations) = 3
  /\ Len(results) = 2 /\ Len(targetedRepos) = 2

UnknownWithStack ==
  { n \in PyrrhaDirs(workspace) :
      n \notin Range(RepoConfigKeys) /\ checkRepository(repoFiles[n]) # {} }

WatchScripts == {"lint-watch.sh", "lint-mobile.sh"}

\* the checks of lint_watch_repository and of lint_mobile_repository, in
\* the order they are called
Checks(script) ==
  IF script = "lint-watch.sh"
    THEN << "validate_tizen_config", "lint_javascript_files", "lint_css_files",
            "lint_html_files", "check_accessory_protocol" >>
    ELSE << "lint_java_files", "lint_xml_files", "lint_gradle_files", "run_spotbugs" >>

\* the checks that have a return 1: check_accessory_protocol and
\* run_spotbugs always return 0
CanFail(script) ==
  IF script = "lint-watch.sh"
    THEN {"validate_tizen_config", "lint_javascript_files", "lint_css_files",
          "lint_html_files"}
    ELSE {"lint_java_files", "lint_xml_files", "lint_gradle_files"}

\* the options of the while loop over the arguments: the last argument
\* beside --repo=NAME; "--repo" is --repo given last, without a value
WatchOptions == {"", "--fix", "--verbose", "--help", "--color", "--repo"}

\* the directories Pyrrha-* of the workspace, in the order of the glob
WatchDirNames == << "Pyrrha-Mobile-App", "Pyrrha-Watch-App" >>

\* the names --repo is given: a directory of the workspace or a name that
\* is no directory
WatchTargets == {"", "Pyrrha-Mobile-App", "Pyrrha-Watch-App", "Pyrrha-Sensor"}

\* variant: the checks stop at the first one that fails
RECURSIVE RunChecks_StopAtFailure(_, _, _, _)
RunChecks_StopAtFailure(repo, checks, failing, n) ==
  IF n = 0 THEN << >>
  ELSE LET before == RunChecks_StopAtFailure(repo, checks, failing, n - 1)
       IN IF \E i \in 1..Len(before) : ~before[i].ok
            THEN before
            ELSE Append(before, [repo |-> repo, check |-> checks[n],
                                 ok |-> checks[n] \notin failing])

\* lint_watch_repository, lint_mobile_repository: the first n checks, each
\* in an if that only sets has_errors
RECURSIVE RunChecks(_, _, _, _)
RunChecks(repo, checks, failing, n) ==
  IF n = 0 THEN << >>
  ELSE Append(RunChecks(repo, checks, failing, n - 1),
              [repo |-> repo, check |-> checks[n], ok |-> checks[n] \notin failing])

\* the return of the function: 1 when has_errors is true
HasErrors(ran) == IF \E i \in 1..Len(ran) : ~ran[i].ok THEN 1 ELSE 0

\* check_watch_repo, check_mobile_repo of $WORKSPACE_ROOT/name: a directory
\* with the files of a project of the kind
IsRepoOfKind(dirs, name) ==
  \E i \in 1..Len(dirs) : dirs[i].name = name /\ dirs[i].kind

TheDir(dirs, name) == dirs[CHOOSE i \in 1..Len(dirs) : dirs[i].name = name]

\* the script is started with its arguments in a workspace: each directory
\* is a project of the kind of the script or not, and some of its checks
\* fail
InitWatch ==
  \E script \in WatchScripts, option \in WatchOptions, target \in WatchTargets,
     n \in 0..Len(WatchDirNames) :
    \E kinds \in [1..n -> BOOLEAN],
       failing \in [1..n -> SubsetsUpTo(CanFail(script), MaxFailures)] :
      /\ \A i \in 1..n : ~kinds[i] => failing[i] = {}
      /\ OrchestratorOff(<< >>)
      /\ ClassOff /\ ShellOff
      /\ wScript = script
      /\ wArgs = [option |-> option, target |-> target]
      /\ wDirs = [ i \in 1..n |-> [name |-> WatchDirNames[i], kind |-> kinds[i],
                                   failing |-> failing[i]] ]
      /\ wIdx = 0
      /\ wExitCode = 0
      /\ wProcessed = 0
      /\ wRan = << >>
      /\ wExit = NoExit
      /\ wPc = "options"

OrchestratorIdle ==
  UNCHANGED << classVars, shellVars, hook, procs, argv, workspace, configs, pc,
               fixMode, verbose, targetRepos, repos, targetedRepos, repoIdx,
               scriptIdx, scriptResults, results, allResults, invocations,
               console, exitCode >>

\* the while loop over the arguments: -h or --help exits 0, an unknown
\* option exits 1, --repo without a value ends the script at shift 2
\* (set -e)
WParseOptions ==
  /\ wPc = "options"
  /\ IF wArgs.option = "--help"
       THEN wExit' = 0 /\ wPc' = "done"
     ELSE IF wArgs.option \in {"--color", "--repo"}
       THEN wExit' = 1 /\ wPc' = "done"
     ELSE wExit' = wExit /\ wPc' = "main"
  /\ UNCHANGED << wScript, wArgs, wDirs, wIdx, wExitCode, wProcessed, wRan >>
  /\ OrchestratorIdle

\* main with TARGET_REPO: the repository is linted when it is of the kind
WTarget ==
  /\ wPc = "main"
  /\ wArgs.target # ""
  /\ IF IsRepoOfKind(wDirs, wArgs.target)
       THEN LET ran == RunChecks(wArgs.target, Checks(wScript),
                                 TheDir(wDirs, wArgs.target).failing,
                                 Len(Checks(wScript)))
            IN /\ wRan' = wRan \o ran
               /\ wExitCode' = IF HasErrors(ran) # 0 THEN 1 ELSE wExitCode
               /\ wProcessed' = 1
       ELSE UNCHANGED << wRan, wExitCode, wProcessed >>
  /\ wPc' = "summary"
  /\ UNCHANGED << wScript, wArgs, wDirs, wIdx, wExit >>
  /\ OrchestratorIdle

\* main without TARGET_REPO: the loop over $WORKSPACE_ROOT/Pyrrha-* starts
WScan ==
  /\ wPc = "main"
  /\ wArgs.target = ""
  /\ wIdx' = 1
  /\ wPc' = "scan"
  /\ UNCHANGED << wScript, wArgs, wDirs, wExitCode, wProcessed, wRan, wExit >>
  /\ OrchestratorIdle

\* one turn of the loop: a directory of the kind is linted and counted
WScanDir ==
  /\ wPc = "scan"
  /\ wIdx <= Len(wDirs)
  /\ IF wDirs[wIdx].kind
       THEN LET ran == RunChecks(wDirs[wIdx].name, Checks(wScript),
                                 wDirs[wIdx].failing, Len(Checks(wScript)))
            IN /\ wRan' = wRan \o ran
               /\ wExitCode' = IF HasErrors(ran) # 0 THEN 1 ELSE wExitCode
               /\ wProcessed' = wProcessed + 1
       ELSE UNCHANGED << wRan, wExitCode, wProcessed >>
  /\ wIdx' = wIdx + 1
  /\ UNCHANGED << wScript, wArgs, wDirs, wExit, wPc >>
  /\ OrchestratorIdle

\* the summary and return $exit_code: main is the last command of the
\* script
WSummary ==
  /\ \/ wPc = "summary"
     \/ wPc = "scan" /\ wIdx > Len(wDirs)
  /\ wExit' = wExitCode
  /\ wPc' = "done"
  /\ UNCHANGED << wScript, wArgs, wDirs, wIdx, wExitCode, wProcessed, wRan >>
  /\ OrchestratorIdle

NextWatch ==
  \/ WParseOptions
  \/ WTarget
  \/ WScan
  \/ WScanDir
  \/ WSummary

SpecWatch == InitWatch /\ [][NextWatch]_vars

\* ------------------------------------------------------------------------
\* C25, C26: lint-dashboard.sh
\* ------------------------------------------------------------------------
\* the names of the commands run
RanNames == { shRan[i].name : i \in 1..Len(shRan) }

\* the commands that were run and exited non-zero
RanAndFailed == RanNames \cap shFails

StageRank ==
  ("start" :> 0) @@ ("web" :> 1) @@ ("python" :> 2) @@ ("auth" :> 3) @@ ("docker" :> 4)

WebLinters ==
  {"yarn format:prettier", "yarn format:diff", "yarn prettier --write",
   "yarn prettier --check", "yarn eslint . --fix", "yarn eslint .", "yarn test"}

FlaskLinters ==
  {"black .", "black --check", "isort .", "isort --check-only", "flake8", "mypy"}

AuthLinters == {"npx prettier --write", "npx prettier --check"}

\* the commands of lint-dashboard.sh that end the script when they fail
DashboardBlocking ==
  {"cd REPO_PATH", "test -f pyrrha-dashboard/package.json", "cd pyrrha-dashboard",
   "copy shared configs", "yarn install", "yarn prettier --write",
   "yarn prettier --check", "yarn eslint . --fix", "yarn eslint .", "yarn test",
   "cd api-main", "copy pyproject.toml", "python3 -m venv venv", "black .",
   "black --check", "isort .", "isort --check-only", "flake8", "cd ..",
   "cd api-auth", "npm install", "npx prettier --write", "npx prettier --check",
   "cd ../.."}

\* the stages of which a linter was run
StagesRun ==
  { shRan[i].stage : i \in { j \in 1..Len(shRan) :
      shRan[j].name \in WebLinters \cup FlaskLinters \cup AuthLinters } }

\* C25: lint-dashboard.sh runs its stages in the order web, Python Flask
\* API, auth API; the linters of each stage run in the directory of the
\* stage; a run in which no blocking command of the stages fails ran the
\* linters of the three stages, each command once, and is back in the
\* repository root for the Dockerfile section.
C25_DashboardStagesInSequence ==
  shScript = "lint-dashboard.sh" =>
    /\ \A i, j \in 1..Len(shRan) :
         i < j => StageRank[shRan[i].stage] <= StageRank[shRan[j].stage]
    /\ \A i \in 1..Len(shRan) :
         /\ shRan[i].name \in WebLinters => shRan[i].cwd = << "pyrrha-dashboard" >>
         /\ shRan[i].name \in FlaskLinters =>
              shRan[i].cwd = << "pyrrha-dashboard", "api-main" >>
         /\ shRan[i].name \in AuthLinters =>
              shRan[i].cwd = << "pyrrha-dashboard", "api-auth" >>
    /\ \A i, j \in 1..Len(shRan) : shRan[i].name = shRan[j].name => i = j
    /\ (shExit # NoExit /\ shFails \cap DashboardBlocking = {}) =>
         /\ StagesRun = {"web", "python", "auth"}
         /\ {"yarn test", "flake8", "mypy"} \subseteq RanNames
         /\ RanNames \cap AuthLinters # {}
         /\ shRan[Len(shRan)].stage = "docker"
         /\ shRan[Len(shRan)].cwd = << >>

C25_Witness ==
  /\ shScript = "lint-dashboard.sh" /\ ~shFix /\ shExit # NoExit
  /\ shFails = {"mypy"}
  /\ Len(shRan) = 21
  /\ shRan[19].name = "npx prettier --check"
  /\ shRan[19].cwd = << "pyrrha-dashboard", "api-auth" >>
  /\ shRan[20].name = "cd ../.."
  /\ shRan[21].stage = "docker" /\ shRan[21].cwd = << >>

\* C26: in lint-dashboard.sh the first blocking command that fails is the
\* last command run and the status is non-zero; the Python stage runs only
\* when no blocking command of the web stage failed, the auth stage only when
\* no earlier blocking command failed; a failure of mypy, or of the first
\* Prettier command when its fallback succeeds, stops nothing.
C26_DashboardFailFast ==
  shScript = "lint-dashboard.sh" =>
    /\ \A i \in 1..Len(shRan) :
         (shRan[i].name \in shFails /\ shRan[i].name \in DashboardBlocking)
            => (i = Len(shRan) /\ shExit \notin {0, NoExit})
    /\ \A i \in 1..Len(shRan) :
         shRan[i].stage \in {"python", "auth", "docker"} =>
           \A j \in 1..(i - 1) : shRan[j].name \notin shFails \cap DashboardBlocking
    /\ ("mypy" \in RanAndFailed /\ shExit # NoExit /\ RanAndFailed \cap DashboardBlocking = {})
          => ({"cd ..", "cd api-auth"} \subseteq RanNames /\ RanNames \cap AuthLinters # {})

C26_Witness ==
  /\ shScript = "lint-dashboard.sh" /\ ~shFix /\ shExit = 1
  /\ shFails = {"yarn format:diff", "yarn eslint ."}
  /\ Len(shRan) = 8
  /\ shRan[7].name = "yarn prettier --check"
  /\ shRan[8].name = "yarn eslint ."

\* ------------------------------------------------------------------------
\* C28: lint-python.sh
\* ------------------------------------------------------------------------
PythonBlocking ==
  {"cd REPO_PATH", "copy pyproject.toml", "python3 -m venv venv",
   "source venv/bin/activate", "pip install --upgrade pip",
   "pip install linting tools", "pip install mariadb", "black .", "black --check",
   "isort .", "isort --check-only", "flake8 --select"}

PythonAdvisory == {"flake8 --exit-zero", "mypy", "bandit", "safety"}

\* C28: lint-python.sh ends with a non-zero status exactly when a blocking
\* command (set-up, Black, isort, the first pass of flake8) fails, and that
\* command is the last one run; a failure of the second pass of flake8, of
\* mypy, of bandit or of safety changes neither the status nor the commands
\* run after it.
C28_PythonBlockingSteps ==
  (shScript = "lint-python.sh" /\ shExit # NoExit) =>
    /\ shExit # 0 <=> shFails \cap PythonBlocking # {}
    /\ shExit # 0 =>
         /\ shRan[Len(shRan)].name \in shFails \cap PythonBlocking
         /\ \A i \in 1..(Len(shRan) - 1) : shRan[i].name \notin shFails \cap PythonBlocking
    /\ shFails \cap PythonBlocking = {} =>
         /\ shExit = 0
         /\ PythonAdvisory \subseteq RanNames

\* ------------------------------------------------------------------------
\* C29: lint-cpp.sh in check mode
\* ------------------------------------------------------------------------
CppSetUp ==
  {"cd REPO_PATH", "copy .clang-format", "clang-format available", "find C/C++ files"}

CppSections ==
  {"clang-format check loop", "static analysis", "code metrics",
   "project structure", "build verification", "firmware checks"}

\* C29: in check mode, with clang-format available and files to check,
\* lint-cpp.sh reports the number of files with formatting issues, runs all
\* its remaining sections and ends with status 0 whatever that number; the
\* status is one that runScript records as a success.
C29_FormatIssuesNeverFail ==
  (/\ shScript = "lint-cpp.sh" /\ ~shFix /\ shExit # NoExit
   /\ shFails \cap CppSetUp = {}) =>
    /\ shExit = 0
    /\ CppSections \subseteq RanNames
    /\ shRan[5].name = "clang-format check loop" /\ shRan[5].count = shIssues
    /\ ~ExecSyncThrows(shExit, "")

C29_Witness ==
  /\ shScript = "lint-cpp.sh" /\ ~shFix /\ shExit = 0
  /\ shIssues = 2 /\ shFails = {}
  /\ Len(shRan) = 10 /\ shRan[5].count = 2

\* ------------------------------------------------------------------------
\* C27: the dispatch of the pre-commit hook
\* ------------------------------------------------------------------------
\* the repository of the hook has a non-empty script list in REPO_CONFIGS
HookRepoConfigured ==
  hookRepo \in DOMAIN configs /\ Len(configs[hookRepo].scripts) > 0

\* C27: in a repository whose REPO_CONFIGS script list is non-empty the
\* hook takes an arm that launches lint-all.js with --repo equal to that
\* name alone, and every command started is for that repository; in any
\* other repository (Pyrrha-Mobile-App included) node is never started
\* and the hook exits 0.
C27_HookDispatchAgrees ==
  hookPc # "off" =>
    /\ HookRepoConfigured =>
         /\ hookPc = "linting" =>
              (argv = [flags |-> {}, repo |-> Join(<< hookRepo >>)] /\ pc # "notStarted")
         /\ pc \notin {"notStarted", "main"} => targetRepos = << hookRepo >>
         /\ \A i \in 1..Len(started) : started[i].repo = hookRepo
         /\ hookPc = "done" =>
              (pc = "exited" \/ (pc = "notStarted" /\ hookExit = 1))
    /\ ~HookRepoConfigured =>
         /\ pc = "notStarted" /\ started = << >> /\ console = << >>
         /\ hookPc \in {"start", "done"}
         /\ hookPc = "done" => hookExit = 0

C27_Witness ==
  /\ hookRepo = "Pyrrha-Firmware"
  /\ hookPc = "done" /\ pc = "exited"
  /\ targetRepos = << "Pyrrha-Firmware" >>
  /\ Len(started) = 1 /\ started[1].repo = "Pyrrha-Firmware"
  /\ started[1].script = "lint-cpp.sh"

\* ------------------------------------------------------------------------
\* C30: lint-watch.sh and the mobile lint script
\* ------------------------------------------------------------------------
\* the repositories processed: those a check was run for
ProcessedRepos == { wRan[i].repo : i \in 1..Len(wRan) }

\* the checks that were run for a repository, in order
ChecksRanFor(repo) ==
  LET mine == SelectSeq(wRan, LAMBDA r : r.repo = repo)
  IN [ i \in 1..Len(mine) |-> mine[i].check ]

SomeProcessedFailed == \E i \in 1..Len(wRan) : ~wRan[i].ok

\* the function ran every check for each repository it processed, and the
\* exit_code of main is 1 exactly when a check of a processed repository
\* failed
PerRepositoryChecks ==
  /\ \A repo \in ProcessedRepos : ChecksRanFor(repo) = Checks(wScript)
  /\ \A i \in 1..Len(wRan) :
       wRan[i].ok <=> wRan[i].check \notin TheDir(wDirs, wRan[i].repo).failing
  /\ wPc \in {"summary", "done"} => Cardinality(ProcessedRepos) = wProcessed
  /\ wPc \in {"summary", "done"} => (wExitCode = 1 <=> SomeProcessedFailed)

\* C30 as stated: every check of a processed repository is run, and the
\* exit code of the script is 1 if and only if a processed repository
\* failed, 0 when none was processed.
C30_ExitOneIffProcessedFailed ==
  /\ PerRepositoryChecks
  /\ wExit # NoExit =>
       /\ wExit = 1 <=> SomeProcessedFailed
       /\ ProcessedRepos = {} => wExit = 0

\* the arguments are accepted by the while loop: main is reached
OptionsAccepted == wArgs.option \in {"", "--fix", "--verbose"}

\* C30 amended: the same for a run whose arguments are accepted; -h and
\* --help exit 0, an unknown option or --repo without a value exits 1, all
\* with no repository processed.
C30_ExitOneIffProcessedFailedWhenAccepted ==
  /\ PerRepositoryChecks
  /\ (wExit # NoExit /\ OptionsAccepted) =>
       /\ wExit \in {0, 1}
       /\ wExit = 1 <=> SomeProcessedFailed
       /\ ProcessedRepos = {} => wExit = 0
       /\ (wArgs.target # "" /\ ~IsRepoOfKind(wDirs, wArgs.target)) =>
            (wExit = 0 /\ wProcessed = 0 /\ wRan = << >>)
  /\ (wExit # NoExit /\ ~OptionsAccepted) =>
       /\ wRan = << >>
       /\ wExit = IF wArgs.option = "--help" THEN 0 ELSE 1

C30_Witness ==
  /\ wScript = "lint-watch.sh" /\ wArgs = [option |-> "--verbose", target |-> ""]
  /\ wPc = "done" /\ wExit = 1 /\ wProcessed = 2
  /\ Len(wRan) = 10
  /\ wRan[1].repo = "Pyrrha-Mobile-App" /\ ~wRan[1].ok /\ wRan[5].ok
  /\ \A i \in 6..10 : wRan[i].repo = "Pyrrha-Watch-App" /\ wRan[i].ok

====
